---- MODULE Spec2Model ----
(***************************************************************************)
(* Model of assets/rewrite.py: the asynchronous pipeline that rewrites     *)
(* proxy links so that their display name carries the country of the       *)
(* server (parse -> resolve -> cached country lookup -> annotate).         *)
(*                                                                         *)
(* Strings are sequences of Unicode code points.  The asyncio event loop   *)
(* is modelled by its FIFO ready queue: a task runs from one suspension    *)
(* point to the next as one atomic step, and the completion of a DNS or    *)
(* HTTP call is an external event that puts the waiting task back on the   *)
(* ready queue.                                                            *)
(***************************************************************************)
EXTENDS Integers, Sequences, FiniteSets, TLC

\* ------------------------------------------------------------------ bounds
\* longest input list explored
MaxLinks == 2
\* semaphore sizes explored besides the configured one, so that units can
\* outnumber the permits
MaxSmallLimit == 1

\* ------------------------------------------------------- program constants
MAX_CONCURRENT_REQUESTS == 20
USE_FALLBACK_API == TRUE

\* Optional[str]: None is kept apart from the empty string
None == <<-1>>
NoIp == "None"

\* "xXx"
UNKNOWN == <<120, 88, 120>>
\* the glyph returned for a code that is not two characters long
QUESTION_MARK == <<10067>>
\* "  ROSE" followed by an em dash
TAG == <<32, 32, 82, 79, 83, 69, 8212>>
REGIONAL_BASE == 127462

\* ------------------------------------------------------------ str helpers
Whitespace == {9, 10, 11, 12, 13, 32}
Brackets == {91, 93}

IsDigit(c) == c >= 48 /\ c <= 57

RECURSIVE LStrip(_, _)
LStrip(s, chars) ==
    IF s # <<>> /\ Head(s) \in chars THEN LStrip(Tail(s), chars) ELSE s

RECURSIVE RStrip(_, _)
RStrip(s, chars) ==
    IF s # <<>> /\ s[Len(s)] \in chars
    THEN RStrip(SubSeq(s, 1, Len(s) - 1), chars)
    ELSE s

\* str.strip(chars)
Strip(s, chars) == RStrip(LStrip(s, chars), chars)

\* the string left whole
SplitNowhere(s, sep) == s

\* s.split(sep)[0]
SplitFirst(s, sep) ==
    IF \E k \in 1..Len(s) : s[k] = sep
    THEN LET k == CHOOSE j \in 1..Len(s) :
                     s[j] = sep /\ \A m \in 1..(j - 1) : s[m] # sep
         IN  SubSeq(s, 1, k - 1)
    ELSE s

\* str.upper() on the ASCII range
Upper(s) == [k \in 1..Len(s) |-> IF s[k] >= 97 /\ s[k] <= 122 THEN s[k] - 32 ELSE s[k]]

RECURSIVE Digits(_)
Digits(n) == IF n < 10 THEN <<48 + n>> ELSE Digits(n \div 10) \o <<48 + (n % 10)>>

\* format(n, "02d")
Format02d(n) == IF n < 10 THEN <<48>> \o Digits(n) ELSE Digits(n)

\* Python truthiness of an Optional[str]
Truthy(v) == v # None /\ v # <<>>

\* --------------------------------------------------------- pure functions
\* re.search(r'@(.+?):(\d+)', link): a match starts at the leftmost '@' for
\* which one exists, and the lazy group ends at the first ':' that a digit
\* follows ('.' matches anything but a newline)
MatchAt(link, p, q) ==
    /\ link[p] = 64
    /\ q >= p + 2
    /\ q + 1 <= Len(link)
    /\ link[q] = 58
    /\ IsDigit(link[q + 1])
    /\ \A k \in (p + 1)..(q - 1) : link[k] # 10

HasMatch(link) == \E p \in 1..Len(link) : \E q \in 1..Len(link) : MatchAt(link, p, q)

MatchGroup1(link) ==
    LET p == CHOOSE i \in 1..Len(link) :
                 /\ \E q \in 1..Len(link) : MatchAt(link, i, q)
                 /\ \A j \in 1..(i - 1) : \A q \in 1..Len(link) : ~MatchAt(link, j, q)
        q == CHOOSE i \in 1..Len(link) :
                 /\ MatchAt(link, p, i)
                 /\ \A j \in 1..(i - 1) : ~MatchAt(link, p, j)
    IN  SubSeq(link, p + 1, q - 1)

\* returns <<host, base_link>>, <<None, None>> for a blank or unmatched link
extract_host_and_base_link(raw) ==
    LET link == Strip(raw, Whitespace)
    IN  IF link = <<>> THEN <<None, None>>
        ELSE IF ~HasMatch(link) THEN <<None, None>>
        ELSE <<Strip(MatchGroup1(link), Brackets), SplitFirst(link, 35)>>

get_flag_emoji(country_code) ==
    IF ~Truthy(country_code) \/ Len(country_code) # 2
    THEN QUESTION_MARK
    ELSE LET up == Upper(country_code)
         IN  [k \in 1..Len(up) |-> REGIONAL_BASE + up[k] - 65]

\* the tail of process_link: flag, new name and the rewritten link
Annotate(base_link, country_code, index) ==
    base_link \o <<35>> \o get_flag_emoji(country_code) \o country_code
              \o TAG \o Format02d(index)

\* socket.gethostbyname encodes the host with the idna codec first, which
\* raises UnicodeError (not a gaierror) on an empty label
IdnaFails(h) == \E k \in 1..(Len(h) - 1) : h[k] = 46 /\ h[k + 1] = 46


\* ------------------------------------------------------------ input data
\* " "
LinkBlank == <<32>>
\* "x"
LinkNoPattern == <<120>>
\* "u@a:1#n"
LinkNamed == <<117, 64, 97, 58, 49, 35, 110>>
\* "#u@a:1"
LinkHashFirst == <<35, 117, 64, 97, 58, 49>>
\* "u@[]:1"
LinkBracketsOnly == <<117, 64, 91, 93, 58, 49>>
\* "u@a..b:1"
LinkEmptyLabel == <<117, 64, 97, 46, 46, 98, 58, 49>>

LinkPool ==
    {LinkBlank, LinkNoPattern, LinkNamed, LinkHashFirst, LinkBracketsOnly, LinkEmptyLabel}

IPs == {"1.2.3.4", "5.6.7.8"}

\* "US", "DE"
Codes == {<<85, 83>>, <<68, 69>>}

\* what one I/O call hands back to the task that awaits it
IoResult(kind, status, country, ip) ==
    [kind |-> kind, status |-> status, country |-> country, ip |-> ip]

NoIo == IoResult("none", "", None, NoIp)

\* socket.gethostbyname(host) in the executor
DnsResults(h) ==
    IF IdnaFails(h)
    THEN {IoResult("dns", "UnicodeError", None, NoIp)}
    ELSE {IoResult("dns", "ok", None, ip) : ip \in IPs}
         \cup {IoResult("dns", "gaierror", None, NoIp)}

\* session.get + raise_for_status + resp.json() against the primary service:
\* an exception of one of the four handled classes, or a JSON object whose
\* cf.country is absent, empty or a code
PrimaryResults ==
    {IoResult("ClientResponseError", "", None, NoIp),
     IoResult("ClientError", "", None, NoIp),
     IoResult("JSONDecodeError", "", None, NoIp),
     IoResult("Exception", "", None, NoIp)}
    \cup {IoResult("json", "", c, NoIp) : c \in Codes \cup {None, <<>>}}

\* the same against the fallback service: its JSON object carries "status"
\* and possibly "countryCode"
FallbackResults ==
    {IoResult("ClientError", "", None, NoIp),
     IoResult("JSONDecodeError", "", None, NoIp),
     IoResult("Exception", "", None, NoIp)}
    \cup {IoResult("json", st, c, NoIp) : st \in {"success", "fail"}, c \in Codes \cup {None, <<>>}}

\* the value fetch_country_from_cloudflare returns for a response
fetch_country_from_cloudflare(resp) ==
    IF resp.kind = "json"
    THEN IF ~Truthy(resp.country) THEN None ELSE resp.country
    ELSE None

\* the fallback's country field taken without a look at its status
fetch_country_ignoring_status(resp) ==
    IF resp.kind = "json" THEN resp.country ELSE None

\* the value fetch_country_from_fallback returns for a response
fetch_country_from_fallback(resp) ==
    IF resp.kind = "json"
    THEN IF resp.status # "success" THEN None ELSE resp.country
    ELSE None

\* ------------------------------------------------------------------ state
VARIABLES
    config_list,   \* the input links
    limit,         \* the value the semaphore was created with
    pc,            \* where each process_link task stands
    host,          \* process_link locals
    base_link,
    ip_address,
    country_code,
    result,        \* what each process_link task returned
    io,            \* the outcome of a completed call, not yet consumed
    cache,         \* the run's Dict[str, str]
    sem_value,     \* asyncio.Semaphore._value
    sem_waiters,   \* asyncio.Semaphore._waiters
    ready,         \* the event loop's ready queue (0 is the main coroutine)
    gather_exc,    \* the gather future already carries an exception
    main,          \* where rename_ss_configs_async stands
    renamed_list,  \* its return value
    trace,         \* per task: the service calls made and how each ended
    effects,       \* per task: what it did to the cache and the semaphore
    pure           \* one call of a pure function: its arguments and its value

\* the state of a run of rename_ss_configs_async
runvars == <<config_list, limit, pc, host, base_link, ip_address, country_code,
             result, io, cache, sem_value, sem_waiters, ready, gather_exc, main,
             renamed_list, trace, effects>>

vars == <<runvars, pure>>

\* no pure function is being exercised
PureIdle == [fn |-> "idle"]

Units == 1..Len(config_list)

\* enumerate(config_list) without its start argument
IndexFromZero(u) == u - 1

\* enumerate(config_list, 1)
IndexOf(u) == u

RECURSIVE Range1(_)
Range1(n) == IF n = 0 THEN <<>> ELSE Range1(n - 1) \o <<n>>

InputLists == UNION {[1..n -> LinkPool] : n \in 0..MaxLinks}

Limits == (1..MaxSmallLimit) \cup {MAX_CONCURRENT_REQUESTS}

Init ==
    /\ config_list \in InputLists
    /\ limit \in Limits
    /\ pc = [u \in Units |-> "start"]
    /\ host = [u \in Units |-> None]
    /\ base_link = [u \in Units |-> None]
    /\ ip_address = [u \in Units |-> NoIp]
    /\ country_code = [u \in Units |-> None]
    /\ result = [u \in Units |-> None]
    /\ io = [u \in Units |-> NoIo]
    /\ cache = [x \in {} |-> None]
    /\ sem_value = limit
    /\ sem_waiters = <<>>
    /\ ready = IF Len(config_list) = 0 THEN <<0>> ELSE Range1(Len(config_list))
    /\ gather_exc = FALSE
    /\ main = "gather"
    /\ renamed_list = <<>>
    /\ trace = [u \in Units |-> <<>>]
    /\ effects = [u \in Units |-> {}]
    /\ pure = PureIdle


\* ------------------------------------------------- observation of the run
\* the country a response carries when the service answered successfully
\* (for the fallback: under status "success"), None for every other response
Answered(svc, resp) ==
    IF /\ resp.kind = "json"
       /\ resp.country # None
       /\ resp.country # <<>>
       /\ (svc = "fallback" => resp.status = "success")
    THEN resp.country
    ELSE None

Event(ev, svc, code) == [ev |-> ev, svc |-> svc, code |-> code]

\* -------------------------------------------------------------- semaphore
\* a semaphore that never reports itself locked
LockedNever == FALSE

\* a semaphore that always reports itself locked
LockedAlways == TRUE

\* asyncio.Semaphore.locked(): no permit left, or somebody is queued
Locked == sem_value = 0 \/ sem_waiters # <<>>

\* the waiters whose future is still pending, in queue order
Pending(waiters) == SelectSeq(waiters, LAMBDA w : pc[w] = "sem_wait")

\* --------------------------------------------------------------- gather
\* the gather future gets its result when the last task finishes, and the
\* main coroutine is rescheduled
GatherNotify(u) ==
    IF ~gather_exc /\ \A v \in Units \ {u} : pc[v] = "done" THEN <<0>> ELSE <<>>

Running(u) == ready # <<>> /\ Head(ready) = u /\ u \in Units

\* ------------------------------------------------------- process_link steps
\* lines 184-186, then the task is done
Finish(u, code, woken) ==
    /\ country_code' = [country_code EXCEPT ![u] = code]
    /\ result' = [result EXCEPT ![u] = Annotate(base_link[u], code, IndexOf(u))]
    /\ pc' = [v \in Units |-> IF v = u THEN "done"
                              ELSE IF \E k \in 1..Len(woken) : woken[k] = v
                                   THEN "sem_woken" ELSE pc[v]]
    /\ ready' = Tail(ready) \o woken \o GatherNotify(u)

\* a cache that is never found to hold the address
CacheHitNever(ip) == FALSE

\* line 139
CacheHit(ip) == ip \in DOMAIN cache

\* a resolver failure that goes unnoticed
ResolveFailedNever(ip) == FALSE

\* line 173
ResolveFailed(ip) == ip = NoIp

\* the fallback queried whatever the primary returned
NeedsFallbackAlways(code) == TRUE

\* line 145
NeedsFallback(code) == ~Truthy(code) /\ USE_FALLBACK_API

\* lines 163-172: strip, parse, and either return None or start resolving
StartUnit(u) ==
    /\ Running(u)
    /\ pc[u] = "start"
    /\ LET link == Strip(config_list[u], Whitespace)
           parsed == extract_host_and_base_link(link)
       IN  IF link = <<>> \/ ~Truthy(parsed[1]) \/ ~Truthy(parsed[2])
           THEN /\ pc' = [pc EXCEPT ![u] = "done"]
                /\ ready' = Tail(ready) \o GatherNotify(u)
                /\ UNCHANGED <<host, base_link>>
           ELSE /\ pc' = [pc EXCEPT ![u] = "dns"]
                /\ host' = [host EXCEPT ![u] = parsed[1]]
                /\ base_link' = [base_link EXCEPT ![u] = parsed[2]]
                /\ ready' = Tail(ready)
    /\ UNCHANGED <<pure, effects, config_list, limit, ip_address, country_code, result, io, cache,
                   sem_value, sem_waiters, gather_exc, main, renamed_list, trace>>

\* the executor finishes socket.gethostbyname(host)
DnsComplete(u) ==
    /\ u \in Units
    /\ pc[u] = "dns"
    /\ \E r \in DnsResults(host[u]) : io' = [io EXCEPT ![u] = r]
    /\ pc' = [pc EXCEPT ![u] = "dns_done"]
    /\ ready' = Append(ready, u)
    /\ UNCHANGED <<pure, effects, config_list, limit, host, base_link, ip_address, country_code,
                   result, cache, sem_value, sem_waiters, gather_exc, main,
                   renamed_list, trace>>

\* lines 39-43 and 172-182, 139-143: the task resumes with the resolver's
\* outcome, and goes on to the cache check and the semaphore
AfterResolve(u) ==
    /\ Running(u)
    /\ pc[u] = "dns_done"
    /\ io' = [io EXCEPT ![u] = NoIo]
    /\ UNCHANGED <<pure, config_list, limit, host, base_link, cache, main, renamed_list>>
    /\ IF io[u].status \notin {"ok", "gaierror"}
       THEN \* not a gaierror: the exception leaves process_link
            /\ pc' = [pc EXCEPT ![u] = "failed"]
            /\ gather_exc' = TRUE
            /\ ready' = Tail(ready) \o (IF gather_exc THEN <<>> ELSE <<0>>)
            /\ UNCHANGED <<ip_address, country_code, result, sem_value,
                           sem_waiters, trace, effects>>
       ELSE LET ip == io[u].ip
            IN  /\ ip_address' = [ip_address EXCEPT ![u] = ip]
                /\ UNCHANGED gather_exc
                /\ IF ResolveFailed(ip)
                   THEN /\ Finish(u, UNKNOWN, <<>>)
                        /\ UNCHANGED <<sem_value, sem_waiters, trace, effects>>
                   ELSE IF CacheHit(ip)
                   THEN /\ Finish(u, cache[ip], <<>>)
                        /\ effects' = [effects EXCEPT ![u] = @ \cup {"cache_read"}]
                        /\ UNCHANGED <<sem_value, sem_waiters, trace>>
                   ELSE IF ~Locked
                   THEN /\ sem_value' = sem_value - 1
                        /\ pc' = [pc EXCEPT ![u] = "primary"]
                        /\ trace' = [trace EXCEPT ![u] = Append(@, Event("call", "primary", None))]
                        /\ ready' = Tail(ready)
                        /\ effects' = [effects EXCEPT ![u] = @ \cup {"cache_read", "acquire"}]
                        /\ UNCHANGED <<country_code, result, sem_waiters>>
                   ELSE /\ sem_waiters' = Append(sem_waiters, u)
                        /\ pc' = [pc EXCEPT ![u] = "sem_wait"]
                        /\ ready' = Tail(ready)
                        /\ effects' = [effects EXCEPT ![u] = @ \cup {"cache_read", "acquire"}]
                        /\ UNCHANGED <<country_code, result, sem_value, trace>>

\* Semaphore.acquire after its future was set: leave the queue, pass spare
\* permits on, then line 143
AfterAcquire(u) ==
    /\ Running(u)
    /\ pc[u] = "sem_woken"
    /\ LET rest == SelectSeq(sem_waiters, LAMBDA w : w # u)
           pend == Pending(rest)
           n == IF sem_value < Len(pend) THEN sem_value ELSE Len(pend)
           woken == SubSeq(pend, 1, n)
       IN  /\ sem_waiters' = rest
           /\ sem_value' = sem_value - n
           /\ pc' = [v \in Units |-> IF v = u THEN "primary"
                                     ELSE IF \E k \in 1..n : woken[k] = v
                                          THEN "sem_woken" ELSE pc[v]]
           /\ ready' = Tail(ready) \o woken
    /\ trace' = [trace EXCEPT ![u] = Append(@, Event("call", "primary", None))]
    /\ UNCHANGED <<pure, effects, config_list, limit, host, base_link, ip_address, country_code,
                   result, io, cache, gather_exc, main, renamed_list>>

\* the primary service's HTTP exchange ends, one way or another
PrimaryComplete(u) ==
    /\ u \in Units
    /\ pc[u] = "primary"
    /\ \E r \in PrimaryResults :
         /\ io' = [io EXCEPT ![u] = r]
         /\ trace' = [trace EXCEPT ![u] = Append(@, Event("return", "primary", Answered("primary", r)))]
    /\ pc' = [pc EXCEPT ![u] = "primary_done"]
    /\ ready' = Append(ready, u)
    /\ UNCHANGED <<pure, effects, config_list, limit, host, base_link, ip_address, country_code,
                   result, cache, sem_value, sem_waiters, gather_exc, main,
                   renamed_list>>

\* the fallback service's HTTP exchange ends
FallbackComplete(u) ==
    /\ u \in Units
    /\ pc[u] = "fallback"
    /\ \E r \in FallbackResults :
         /\ io' = [io EXCEPT ![u] = r]
         /\ trace' = [trace EXCEPT ![u] = Append(@, Event("return", "fallback", Answered("fallback", r)))]
    /\ pc' = [pc EXCEPT ![u] = "fallback_done"]
    /\ ready' = Append(ready, u)
    /\ UNCHANGED <<pure, effects, config_list, limit, host, base_link, ip_address, country_code,
                   result, cache, sem_value, sem_waiters, gather_exc, main,
                   renamed_list>>

\* the chain left with its permit still held
StoreWithoutRelease(u, code) ==
    LET final == IF ~Truthy(code) THEN UNKNOWN ELSE code
        ip == ip_address[u]
    IN  /\ cache' = [x \in DOMAIN cache \cup {ip} |-> IF x = ip THEN final ELSE cache[x]]
        /\ sem_value' = sem_value
        /\ effects' = [effects EXCEPT ![u] = @ \cup {"cache_write"}]
        /\ Finish(u, final, <<>>)

\* the chain's raw result stored and returned, without the sentinel default
StoreRawCode(u, code) ==
    LET ip == ip_address[u]
        pend == Pending(sem_waiters)
        woken == IF pend = <<>> THEN <<>> ELSE <<Head(pend)>>
    IN  /\ cache' = [x \in DOMAIN cache \cup {ip} |-> IF x = ip THEN code ELSE cache[x]]
        /\ sem_value' = IF pend = <<>> THEN sem_value + 1 ELSE sem_value
        /\ effects' = [effects EXCEPT ![u] = @ \cup {"cache_write"}]
        /\ Finish(u, code, woken)

\* lines 148-152, Semaphore.release and 184-186
StoreAndReturn(u, code) ==
    LET final == IF ~Truthy(code) THEN UNKNOWN ELSE code
        ip == ip_address[u]
        pend == Pending(sem_waiters)
        woken == IF pend = <<>> THEN <<>> ELSE <<Head(pend)>>
    IN  /\ cache' = [x \in DOMAIN cache \cup {ip} |-> IF x = ip THEN final ELSE cache[x]]
        /\ sem_value' = IF pend = <<>> THEN sem_value + 1 ELSE sem_value
        /\ effects' = [effects EXCEPT ![u] = @ \cup {"cache_write"}]
        /\ Finish(u, final, woken)

\* lines 143-152: the task resumes with the primary's response
AfterPrimary(u) ==
    /\ Running(u)
    /\ pc[u] = "primary_done"
    /\ io' = [io EXCEPT ![u] = NoIo]
    /\ LET code == fetch_country_from_cloudflare(io[u])
       IN  IF NeedsFallback(code)
           THEN /\ pc' = [pc EXCEPT ![u] = "fallback"]
                /\ country_code' = [country_code EXCEPT ![u] = code]
                /\ trace' = [trace EXCEPT ![u] = Append(@, Event("call", "fallback", None))]
                /\ ready' = Tail(ready)
                /\ UNCHANGED <<result, cache, sem_value, effects>>
           ELSE /\ StoreAndReturn(u, code)
                /\ UNCHANGED trace
    /\ UNCHANGED <<pure, config_list, limit, host, base_link, ip_address, sem_waiters,
                   gather_exc, main, renamed_list>>

\* lines 146-152: the task resumes with the fallback's response
AfterFallback(u) ==
    /\ Running(u)
    /\ pc[u] = "fallback_done"
    /\ io' = [io EXCEPT ![u] = NoIo]
    /\ StoreAndReturn(u, fetch_country_from_fallback(io[u]))
    /\ UNCHANGED <<pure, config_list, limit, host, base_link, ip_address, sem_waiters,
                   gather_exc, main, renamed_list, trace>>

\* ------------------------------------------------- rename_ss_configs_async
RECURSIVE CollectReversed(_, _)
\* the results put in front of renamed_list instead of appended to it
CollectReversed(results, n) ==
    IF n = 0 THEN <<>>
    ELSE (IF Truthy(results[n]) THEN <<results[n]>> ELSE <<>>)
         \o CollectReversed(results, n - 1)

RECURSIVE Collect(_, _)
\* lines 208-210 over results[1..n]
Collect(results, n) ==
    IF n = 0 THEN <<>>
    ELSE Collect(results, n - 1) \o (IF Truthy(results[n]) THEN <<results[n]>> ELSE <<>>)

\* lines 206-212: gather hands over the results and the list is returned
MainReturn ==
    /\ ready # <<>> /\ Head(ready) = 0
    /\ ~gather_exc
    /\ main = "gather"
    /\ main' = "returned"
    /\ renamed_list' = Collect(result, Len(config_list))
    /\ ready' = Tail(ready)
    /\ UNCHANGED <<pure, effects, config_list, limit, pc, host, base_link, ip_address,
                   country_code, result, io, cache, sem_value, sem_waiters,
                   gather_exc, trace>>

\* line 206 raises the first task's exception: the coroutine ends without a
\* result and asyncio.run cancels the tasks still pending, whose
\* "async with semaphore" blocks give their permits back
MainAbort ==
    /\ ready # <<>> /\ Head(ready) = 0
    /\ gather_exc
    /\ main = "gather"
    /\ main' = "aborted"
    /\ pc' = [u \in Units |-> IF pc[u] \in {"done", "failed"} THEN pc[u] ELSE "cancelled"]
    /\ io' = [u \in Units |-> NoIo]
    /\ sem_value' = limit
    /\ sem_waiters' = <<>>
    /\ ready' = <<>>
    /\ UNCHANGED <<pure, effects, config_list, limit, host, base_link, ip_address, country_code,
                   result, cache, gather_exc, renamed_list, trace>>

Next ==
    \/ \E u \in Units : StartUnit(u)
    \/ \E u \in Units : DnsComplete(u)
    \/ \E u \in Units : AfterResolve(u)
    \/ \E u \in Units : AfterAcquire(u)
    \/ \E u \in Units : PrimaryComplete(u)
    \/ \E u \in Units : AfterPrimary(u)
    \/ \E u \in Units : FallbackComplete(u)
    \/ \E u \in Units : AfterFallback(u)
    \/ MainReturn
    \/ MainAbort

Spec == Init /\ [][Next]_vars

\* the event loop runs a task whenever one is ready, and every DNS and HTTP
\* call returns or times out: while a step is possible, one is taken
FairSpec == Spec /\ WF_vars(Next)


\* a run over one more link than MaxLinks, each either resolvable or with an
\* empty host label: enough units for two chains and a later cache check on
\* one address
WideLists == [1..(MaxLinks + 1) -> {LinkNamed, LinkEmptyLabel}]

WideInit ==
    /\ config_list \in WideLists
    /\ limit \in Limits
    /\ pc = [u \in Units |-> "start"]
    /\ host = [u \in Units |-> None]
    /\ base_link = [u \in Units |-> None]
    /\ ip_address = [u \in Units |-> NoIp]
    /\ country_code = [u \in Units |-> None]
    /\ result = [u \in Units |-> None]
    /\ io = [u \in Units |-> NoIo]
    /\ cache = [x \in {} |-> None]
    /\ sem_value = limit
    /\ sem_waiters = <<>>
    /\ ready = Range1(Len(config_list))
    /\ gather_exc = FALSE
    /\ main = "gather"
    /\ renamed_list = <<>>
    /\ trace = [u \in Units |-> <<>>]
    /\ effects = [u \in Units |-> {}]
    /\ pure = PureIdle

WideSpec == WideInit /\ [][Next]_vars

\* ------------------------------------------------ the functions on their own
\* largest ordinal handed to the annotation
MaxIndex == 10

\* "u@a.b:1#n"
LinkDomain == <<117, 64, 97, 46, 98, 58, 49, 35, 110>>
\* "u@1.2.3.4:5"
LinkIPv4 == <<117, 64, 49, 46, 50, 46, 51, 46, 52, 58, 53>>
\* "u@[::1]:2#n"
LinkIPv6 == <<117, 64, 91, 58, 58, 49, 93, 58, 50, 35, 110>>
\* "u@[a::]:2#n#m"
LinkIPv6TwoNames == <<117, 64, 91, 97, 58, 58, 93, 58, 50, 35, 110, 35, 109>>
\* " u@a:1#n" and a newline
LinkPadded == <<32, 117, 64, 97, 58, 49, 35, 110, 10>>

ParseLinks ==
    {LinkDomain, LinkIPv4, LinkIPv6, LinkIPv6TwoNames, LinkPadded,
     LinkBlank, LinkNoPattern, LinkHashFirst}

\* "US", "us", "dE", "", "U", "USA", "xXx", "12", "U1"
FlagCodes ==
    {<<85, 83>>, <<117, 115>>, <<100, 69>>, <<>>, <<85>>, <<85, 83, 65>>,
     UNKNOWN, <<49, 50>>, <<85, 49>>}

\* what an HTTP exchange with a lookup service can end in: an exception, or a
\* JSON object with or without a success indicator ("" when it has none) and
\* with an absent, empty or filled country field
Payloads ==
    {IoResult(k, "", None, NoIp) :
        k \in {"ClientResponseError", "ClientError", "JSONDecodeError", "Exception"}}
    \cup {IoResult("json", st, c, NoIp) :
            st \in {"", "success", "fail"}, c \in {None, <<>>, <<85, 83>>}}

PureArgs(link, code, index, resp) ==
    [fn |-> "args", link |-> link, code |-> code, index |-> index, resp |-> resp,
     out |-> <<>>]

\* the arguments are drawn, no run is under way
PureInit ==
    /\ pure \in {PureArgs(l, c, n, r) :
                    l \in ParseLinks, c \in FlagCodes, n \in 1..MaxIndex, r \in Payloads}
    /\ config_list = <<>>
    /\ limit = MAX_CONCURRENT_REQUESTS
    /\ pc = <<>>
    /\ host = <<>>
    /\ base_link = <<>>
    /\ ip_address = <<>>
    /\ country_code = <<>>
    /\ result = <<>>
    /\ io = <<>>
    /\ cache = [x \in {} |-> None]
    /\ sem_value = limit
    /\ sem_waiters = <<>>
    /\ ready = <<>>
    /\ gather_exc = FALSE
    /\ main = "idle"
    /\ renamed_list = <<>>
    /\ trace = <<>>
    /\ effects = <<>>

Returns(fn, value) ==
    /\ pure.fn = "args"
    /\ pure' = [pure EXCEPT !.fn = fn, !.out = value]
    /\ UNCHANGED runvars

CallExtract == Returns("extract", extract_host_and_base_link(pure.link))

CallFlag == Returns("flag", <<get_flag_emoji(pure.code)>>)

\* process_link without its awaits: lines 163-169, then 184-186 with the
\* country code the lookup gave
CallAnnotate ==
    /\ Truthy(pure.code)
    /\ LET link == Strip(pure.link, Whitespace)
           parsed == extract_host_and_base_link(link)
       IN  IF link = <<>> \/ ~Truthy(parsed[1]) \/ ~Truthy(parsed[2])
           THEN Returns("annotate", <<None>>)
           ELSE Returns("annotate", <<Annotate(parsed[2], pure.code, pure.index)>>)

CallFetchPrimary == Returns("fetch_primary", <<fetch_country_from_cloudflare(pure.resp)>>)

CallFetchFallback == Returns("fetch_fallback", <<fetch_country_from_fallback(pure.resp)>>)

PureNext ==
    \/ CallExtract
    \/ CallFlag
    \/ CallAnnotate
    \/ CallFetchPrimary
    \/ CallFetchFallback

PureSpec == PureInit /\ [][PureNext]_vars

\* ================================================================ claims
AllDone == \A u \in Units : pc[u] = "done"

\* the units in input order that satisfy P
RECURSIVE Keep(_, _)
Keep(P(_), n) == IF n = 0 THEN <<>> ELSE Keep(P, n - 1) \o (IF P(n) THEN <<n>> ELSE <<>>)

\* lookup-service HTTP calls dispatched and not yet answered
Outstanding == Cardinality({u \in Units : pc[u] \in {"primary", "fallback"}})

\* C1: at no point are more lookup-service calls (primary or fallback)
\* outstanding than the limit the semaphore was created with, which is at
\* most MAX_CONCURRENT_REQUESTS
C1_ConcurrencyBound == Outstanding <= limit /\ Outstanding <= MAX_CONCURRENT_REQUESTS

\* C1 witness: every permit is in use by an outstanding call while another
\* unit that needs a lookup is held back at the semaphore
C1_Witness ==
    /\ Outstanding = limit
    /\ \E u \in Units : pc[u] = "sem_wait"

\* the units that started a lookup chain for the ip
ChainsFor(ip) == {u \in Units : ip_address[u] = ip /\ trace[u] # <<>>}

\* C2: within one run the lookup chain is invoked at most once per distinct
\* IP address, also when several units race on the same IP
C2_OneChainPerIp == \A ip \in IPs : Cardinality(ChainsFor(ip)) <= 1

\* C3: every unit that obtained a code for an IP holds the code the cache
\* holds for that IP: all of them got the same code and a written entry
\* never changed
C3_CacheCoherence ==
    \A u \in Units :
        (pc[u] = "done" /\ ip_address[u] \in DOMAIN cache)
            => country_code[u] = cache[ip_address[u]]

\* the trimmed link contains a match of @host:port
ContainsPattern(u) == HasMatch(Strip(config_list[u], Whitespace))

\* C4 as stated: the returned list has exactly the entries of the links that
\* contain the @host:port pattern, in input order
C4_Original ==
    main = "returned" =>
        LET idx == Keep(ContainsPattern, Len(config_list))
        IN  /\ Len(renamed_list) = Len(idx)
            /\ \A k \in 1..Len(idx) : renamed_list[k] = result[idx[k]]

\* the trimmed link contains the pattern, the host it captures is more than
\* square brackets, and the link does not begin with '#'
Survives(u) ==
    LET link == Strip(config_list[u], Whitespace)
    IN  /\ HasMatch(link)
        /\ \E k \in 1..Len(MatchGroup1(link)) : MatchGroup1(link)[k] \notin Brackets
        /\ link[1] # 35

\* C4 amended: the returned list has exactly the entries of the links that
\* contain the pattern with a host that is not only brackets and that do not
\* begin with '#', in input order
C4_SurvivorsInOrder ==
    main = "returned" =>
        LET idx == Keep(Survives, Len(config_list))
        IN  /\ Len(renamed_list) = Len(idx)
            /\ \A k \in 1..Len(idx) :
                 /\ Truthy(result[idx[k]])
                 /\ renamed_list[k] = result[idx[k]]

\* C4 witness: two entries were returned in input order although the second
\* unit completed first (the first one was served from the cache entry the
\* second one wrote)
C4_Witness ==
    /\ main = "returned"
    /\ Len(renamed_list) = 2
    /\ Len(config_list) >= 2
    /\ trace[1] = <<>> /\ trace[2] # <<>>
    /\ ip_address[1] = ip_address[2] /\ ip_address[1] # NoIp
    /\ renamed_list[1] = result[1]

HasEntry(u) == Truthy(result[u])

\* the last n code points of s
Suffix(s, n) == SubSeq(s, Len(s) - n + 1, Len(s))

\* C5: the k-th returned entry ends with the em dash and the two-digit
\* 1-based input position of the link it comes from, dropped lines counted
C5_OrdinalIsInputPosition ==
    /\ \A u \in Units :
         HasEntry(u) => Suffix(result[u], 3) = <<8212, 48 + (u \div 10), 48 + (u % 10)>>
    /\ main = "returned" =>
         LET idx == Keep(HasEntry, Len(config_list))
         IN  \A k \in 1..Len(renamed_list) :
                 Suffix(renamed_list[k], 3)
                     = <<8212, 48 + (idx[k] \div 10), 48 + (idx[k] % 10)>>

\* C5 witness: the first line was dropped and the only entry returned is
\* numbered 02
C5_Witness ==
    /\ main = "returned"
    /\ Len(config_list) = 2
    /\ ~HasEntry(1)
    /\ Len(renamed_list) = 1
    /\ Suffix(renamed_list[1], 2) = <<48, 50>>


\* C6: a failure inside one unit (parse, DNS resolution of any kind, lookup
\* service) never makes a unit end without returning, never cancels a
\* sibling and never makes rename_ss_configs_async abort
C6_FailureIsolation ==
    /\ main # "aborted"
    /\ \A u \in Units : pc[u] \notin {"failed", "cancelled"}

\* the entry of a parseable link whose country is unknown
UnknownEntry(u) ==
    SplitFirst(Strip(config_list[u], Whitespace), 35)
        \o <<35, 10067, 120, 88, 120, 32, 32, 82, 79, 83, 69, 8212>>
        \o <<48 + (u \div 10), 48 + (u % 10)>>

\* the unit parsed its link, and its resolve_host call returned None
ResolveReturnedNone(u) ==
    pc[u] = "done" /\ base_link[u] # None /\ ip_address[u] = NoIp

C8_ChainOrder ==
    \A u \in Units :
        LET t == trace[u]
        IN  /\ Len(t) <= 4
            /\ Len(t) >= 1 => t[1] = Event("call", "primary", None)
            /\ Len(t) >= 2 => t[2].ev = "return" /\ t[2].svc = "primary"
            /\ Len(t) >= 3 => t[3] = Event("call", "fallback", None) /\ t[2].code = None
            /\ Len(t) >= 4 => t[4].ev = "return" /\ t[4].svc = "fallback"
            /\ (pc[u] = "done" /\ Len(t) >= 1) => Len(t) \in {2, 4}

\* C8 witness: one unit finished after the primary alone, another after the
\* primary and the fallback
C8_Witness ==
    \E u, v \in Units :
        /\ pc[u] = "done" /\ Len(trace[u]) = 2
        /\ pc[v] = "done" /\ Len(trace[v]) = 4

PrimaryAnswer(u) == trace[u][2].code
FallbackAnswer(u) == IF Len(trace[u]) >= 4 THEN trace[u][4].code ELSE None

\* C9: a chain invocation never ends in an exception; it returns the
\* primary's code when the primary answered, the fallback's code when only
\* the fallback answered, the sentinel exactly when neither did, and never an
\* empty value
C9_ChainResult ==
    \A u \in Units :
        /\ pc[u] = "failed" => trace[u] = <<>>
        /\ (pc[u] = "done" /\ ip_address[u] # NoIp) => Truthy(country_code[u])
        /\ (pc[u] = "done" /\ trace[u] # <<>>) =>
             /\ Truthy(country_code[u])
             /\ PrimaryAnswer(u) # None => country_code[u] = PrimaryAnswer(u)
             /\ (PrimaryAnswer(u) = None /\ FallbackAnswer(u) # None)
                    => country_code[u] = FallbackAnswer(u)
             /\ country_code[u] = UNKNOWN
                    <=> (PrimaryAnswer(u) = None /\ FallbackAnswer(u) = None)

\* C9 witness: the three ways out of the chain: the fallback's code after a
\* failed primary, and the sentinel after a fallback that reported a failure
\* status together with a country
C9_Witness ==
    \E u, v \in Units :
        /\ pc[u] = "done" /\ Len(trace[u]) = 4 /\ country_code[u] \in Codes
        /\ pc[v] = "done" /\ Len(trace[v]) = 4 /\ country_code[v] = UNKNOWN

\* C10: under fair scheduling, with every DNS and HTTP call returning, the
\* run ends with every launched unit completed, and
\* rename_ss_configs_async returns only once they all have
C10_Terminates ==
    /\ <>(main = "returned" /\ AllDone)
    /\ [](main = "returned" => AllDone)


\* the step in which unit u runs line 139 with the address its resolver
\* returned
ChecksCache(u) ==
    /\ pc[u] = "dns_done"
    /\ io[u].status = "ok"
    /\ pc'[u] \notin {"dns_done", "cancelled"}

\* the step in which unit u returns from the lookup chain
LeavesChain(u) == pc[u] \in {"primary_done", "fallback_done"} /\ pc'[u] = "done"

\* C11: a unit that finds its IP in the cache returns the stored value
\* without a service call and leaves the cache as it is; a unit that does not
\* find it enters the lookup chain, and when the chain ends its result is in
\* the cache under that IP as the unit returns it
C11_CacheHitAndMiss ==
    [][\A u \in Units :
        /\ ChecksCache(u) =>
             IF io[u].ip \in DOMAIN cache
             THEN /\ pc'[u] = "done"
                  /\ country_code'[u] = cache[io[u].ip]
                  /\ trace'[u] = <<>>
                  /\ cache' = cache
             ELSE /\ pc'[u] \in {"primary", "sem_wait"}
                  /\ cache' = cache
        /\ LeavesChain(u) =>
             /\ trace[u] # <<>>
             /\ ip_address[u] \in DOMAIN cache'
             /\ cache'[ip_address[u]] = country_code'[u]]_vars

\* C11 witness: one unit was served from the cache entry that another unit's
\* chain had stored
C11_Witness ==
    \E u, v \in Units :
        /\ pc[u] = "done" /\ effects[u] = {"cache_read"}
        /\ pc[v] = "done" /\ "cache_write" \in effects[v]
        /\ ip_address[u] = ip_address[v]
        /\ country_code[u] = cache[ip_address[u]]


\* the response says it succeeded and names a country
SaysSuccessWithCountry(resp) ==
    resp.kind = "json" /\ resp.status = "success" /\ resp.country \notin {None, <<>>}

\* the response names a country
NamesCountry(resp) == resp.kind = "json" /\ resp.country \notin {None, <<>>}

\* the chain takes what the fetch returned as the country (lines 145, 148)
Accepted(out) == out[1] # None /\ out[1] # <<>>

\* C12 as stated: either service's response is accepted only when it carries
\* the success indicator and a non-empty country; every other outcome makes
\* the chain go on
C12_Original ==
    pure.fn \in {"fetch_primary", "fetch_fallback"} =>
        (Accepted(pure.out) <=> SaysSuccessWithCountry(pure.resp))

\* C12 amended: the fallback's response is accepted exactly when it carries
\* status success and a non-empty country; the primary's exactly when it
\* carries a non-empty country, whatever indicator comes with it; an accepted
\* response gives its country, and exceptions are never accepted
C12_AcceptedResponses ==
    /\ pure.fn = "fetch_fallback" =>
         (Accepted(pure.out) <=> SaysSuccessWithCountry(pure.resp))
    /\ pure.fn = "fetch_primary" =>
         (Accepted(pure.out) <=> NamesCountry(pure.resp))
    /\ (pure.fn \in {"fetch_primary", "fetch_fallback"} /\ Accepted(pure.out)) =>
         pure.out[1] = pure.resp.country

\* C12 witness: the primary's response without a success indicator was
\* accepted
C12_Witness ==
    /\ pure.fn = "fetch_primary"
    /\ pure.resp.kind = "json" /\ pure.resp.status = ""
    /\ pure.out = <<<<85, 83>>>>


\* the host each well-formed link embeds, without its brackets:
\* "a.b", "1.2.3.4", "::1", "a::", "a"
EmbeddedHost ==
    (LinkDomain :> <<97, 46, 98>>)
    @@ (LinkIPv4 :> <<49, 46, 50, 46, 51, 46, 52>>)
    @@ (LinkIPv6 :> <<58, 58, 49>>)
    @@ (LinkIPv6TwoNames :> <<97, 58, 58>>)
    @@ (LinkPadded :> <<97>>)

\* the trimmed link up to its first '#':
\* "u@a.b:1", "u@1.2.3.4:5", "u@[::1]:2", "u@[a::]:2", "u@a:1"
TextBeforeHash ==
    (LinkDomain :> <<117, 64, 97, 46, 98, 58, 49>>)
    @@ (LinkIPv4 :> <<117, 64, 49, 46, 50, 46, 51, 46, 52, 58, 53>>)
    @@ (LinkIPv6 :> <<117, 64, 91, 58, 58, 49, 93, 58, 50>>)
    @@ (LinkIPv6TwoNames :> <<117, 64, 91, 97, 58, 58, 93, 58, 50>>)
    @@ (LinkPadded :> <<117, 64, 97, 58, 49>>)

\* C13: for a link that embeds a valid @host:port (a domain, an IPv4 literal
\* or a bracketed IPv6 literal) extract_host_and_base_link returns that
\* host without its brackets and the trimmed link up to its first '#'
C13_ParserExtracts ==
    (pure.fn = "extract" /\ pure.link \in DOMAIN EmbeddedHost) =>
        pure.out = <<EmbeddedHost[pure.link], TextBeforeHash[pure.link]>>


IsLetter(c) == (c >= 65 /\ c <= 90) \/ (c >= 97 /\ c <= 122)

\* the regional-indicator symbol of a letter, whatever its case
Indicator(c) == 127462 + (IF c >= 97 THEN c - 32 ELSE c) - 65

\* C14: get_flag_emoji gives the two regional-indicator symbols of a code
\* made of exactly two letters, and the single unknown glyph for every other
\* code (empty, of another length, or of two characters that are not both
\* letters)
C14_FlagRendering ==
    pure.fn = "flag" =>
        pure.out = <<IF Len(pure.code) = 2 /\ IsLetter(pure.code[1]) /\ IsLetter(pure.code[2])
                     THEN <<Indicator(pure.code[1]), Indicator(pure.code[2])>>
                     ELSE <<10067>>>>

\* the positions of '#' in s
HashesIn(s) == {k \in 1..Len(s) : s[k] = 35}

\* C15: the entry made for a link starts with the text of the trimmed link
\* before its first '#', followed by '#'; that text holds no '#', and the
\* '#' that follows it is the only one of the entry, so nothing of the
\* original display name is left, for every country code and every ordinal
C15_EntryStartsWithBase ==
    (pure.fn = "annotate" /\ pure.link \in DOMAIN TextBeforeHash) =>
        LET base == TextBeforeHash[pure.link]
            entry == pure.out[1]
        IN  /\ entry # None
            /\ Len(entry) > Len(base)
            /\ SubSeq(entry, 1, Len(base) + 1) = base \o <<35>>
            /\ HashesIn(base) = {}
            /\ HashesIn(entry) = {Len(base) + 1}

\* C15 witness: a link with two '#' in its display name was annotated with
\* the sentinel and a two-digit ordinal
C15_Witness ==
    /\ pure.fn = "annotate"
    /\ pure.link = LinkIPv6TwoNames
    /\ pure.code = UNKNOWN
    /\ pure.index = 10
    /\ pure.out[1] # None


\* the unit has been given a permit and has not yet left the chain
InChain(u) ==
    pc[u] \in {"sem_woken", "primary", "primary_done", "fallback", "fallback_done"}

\* C16: the permits taken are as many as the chain invocations in progress,
\* between none and all of the at most 20; a unit holds one only after it
\* missed the cache and before it wrote the cache, never while it parses,
\* resolves or is served from the cache; every permit is free when the run
\* has ended
C16_SemaphoreAccounting ==
    /\ limit - sem_value = Cardinality({u \in Units : InChain(u)})
    /\ sem_value >= 0 /\ sem_value <= limit /\ limit <= MAX_CONCURRENT_REQUESTS
    /\ \A u \in Units :
         InChain(u) =>
            /\ ip_address[u] # NoIp
            /\ "acquire" \in effects[u]
            /\ "cache_write" \notin effects[u]
    /\ main \in {"returned", "aborted"} => sem_value = limit

\* C16 witness: a unit left the chain and its permit went straight to a
\* unit that had been waiting for it, so no permit is free
C16_Witness ==
    \E u, v \in Units :
        /\ pc[u] = "done" /\ "cache_write" \in effects[u]
        /\ pc[v] = "sem_woken"
        /\ sem_value = 0


\* unit u executes code in this step (being woken or cancelled by another
\* unit's step is not executing)
Executes(u) == pc'[u] # pc[u] /\ pc'[u] \notin {"sem_woken", "cancelled"}

\* C17 as stated: a unit is only ever suspended at its DNS call or at one of
\* its HTTP calls, so it is never parked between its cache check and its
\* primary query
C17_Original ==
    \A u \in Units :
        pc[u] \in {"start", "dns", "dns_done", "primary", "primary_done",
                   "fallback", "fallback_done", "done", "failed", "cancelled"}

\* C17 amended: besides its DNS call and its HTTP calls a unit yields only
\* at the semaphore, and only when the semaphore is locked as it arrives; with
\* the semaphore not locked its cache miss and its primary query are one
\* step, as are the return of its last HTTP call and its cache write; and no
\* two units execute in the same step
C17_YieldPoints ==
    [][\A u \in Units :
        /\ (pc[u] = "dns_done" /\ pc'[u] = "sem_wait") =>
              (sem_value = 0 \/ sem_waiters # <<>>)
        /\ (/\ pc[u] = "dns_done" /\ Executes(u)
            /\ io[u].status = "ok" /\ io[u].ip \notin DOMAIN cache
            /\ sem_value > 0 /\ sem_waiters = <<>>) =>
              pc'[u] = "primary"
        /\ (pc[u] \in {"primary_done", "fallback_done"} /\ Executes(u)) =>
              \/ pc[u] = "primary_done" /\ pc'[u] = "fallback"
              \/ /\ pc'[u] = "done"
                 /\ "cache_write" \in effects'[u]
                 /\ ip_address[u] \in DOMAIN cache'
        /\ pc'[u] = "sem_wait" => pc[u] \in {"dns_done", "sem_wait"}
        /\ \A v \in Units \ {u} : ~(Executes(u) /\ Executes(v))]_vars

\* C17 witness: one unit is parked at the semaphore, between its cache check
\* and its primary query, while the unit holding the only permit has its
\* primary's response and has not yet written the cache
C17_Witness ==
    \E u, v \in Units :
        /\ pc[u] = "sem_wait" /\ "cache_read" \in effects[u] /\ trace[u] = <<>>
        /\ pc[v] = "primary_done"
        /\ sem_value = 0

\* the chain of unit u has ended with the primary and the fallback both
\* failing to name a country
BothFailed(u) ==
    /\ pc[u] = "done"
    /\ Len(trace[u]) = 4
    /\ PrimaryAnswer(u) = None
    /\ FallbackAnswer(u) = None

\* C18: a chain that ends with both services failing stores the sentinel
\* under its IP, and every unit that checks the cache for that IP after such
\* a chain has ended returns the sentinel without calling a service
C18_NegativeCached ==
    [][\A u \in Units :
        /\ (LeavesChain(u) /\ country_code'[u] = UNKNOWN) =>
             cache'[ip_address[u]] = UNKNOWN
        /\ \A w \in Units \ {u} :
             (BothFailed(u) /\ ChecksCache(w) /\ io[w].ip = ip_address[u]) =>
                 /\ pc'[w] = "done"
                 /\ trace'[w] = <<>>
                 /\ country_code'[w] = UNKNOWN]_vars

\* the addresses resolve_host has returned to units of this run
ResolvedIps == {ip_address[u] : u \in Units} \ {NoIp}

\* the countries the services have named in answers about address k
AnsweredFor(k) ==
    UNION {{trace[u][i].code : i \in {j \in {2, 4} : j <= Len(trace[u])}} :
               u \in {v \in Units : ip_address[v] = k}} \ {None}

\* C19: every cache key is an address a resolve_host call of the run
\* returned, every cached value is the sentinel or a non-empty country a
\* service named for that address, never None and never empty, and no step
\* removes an entry
C19_CacheContents ==
    /\ [](\A k \in DOMAIN cache :
            /\ k \in ResolvedIps
            /\ cache[k] # None
            /\ cache[k] # <<>>
            /\ cache[k] = UNKNOWN \/ cache[k] \in AnsweredFor(k))
    /\ [][DOMAIN cache \subseteq DOMAIN cache']_vars

\* C19 witness: the run has returned with the cache holding a service's
\* country for one address and the sentinel for another
C19_Witness ==
    /\ main = "returned"
    /\ \E k, l \in DOMAIN cache :
          /\ cache[k] \in Codes
          /\ cache[l] = UNKNOWN
          /\ \A u \in Units : "cache_write" \in effects[u]

====
